---- MODULE Spec2Model ----
(***************************************************************************)
(* Model of scripts/security-config-check.py: the SecurityConfigChecker    *)
(* instance (its results accumulator), the eight checks and the runner     *)
(* run_all_checks / generate_report.                                       *)
(*                                                                         *)
(* A project snapshot is a map from the paths the script touches to a file *)
(* state.  File contents are sets of lines; a line is a small record that  *)
(* stands for one concrete line of text:                                   *)
(*   [k |-> "assign", w |-> "token", a |-> "", n |-> 26]                     *)
(*        token = "<26 characters>"                                        *)
(*   [k |-> "call", w |-> "console.log", a |-> "password", n |-> 0]          *)
(*        console.log(password)                                            *)
(*   [k |-> "word", w |-> "process.env", ...]   the bare text process.env    *)
(*   [k |-> "script", w |-> "audit", ...]  a key of package.json "scripts"   *)
(*   [k |-> "dep", w |-> "helmet", ...]  a key of package.json "dependencies"*)
(*   [k |-> "junk", ...]       text that makes the file invalid JSON        *)
(* snap.rs and snap.ts are the orders in which rglob lists the *.rs files   *)
(* below src and the *.ts files below mcp-server/src, snap.wf the order in *)
(* which glob lists the *.yml files below .github/workflows.               *)
(* The project root is "." so that full paths print as relative paths.     *)
(***************************************************************************)
EXTENDS Integers, Sequences, FiniteSets, TLC

VARIABLES snap,          \* the project snapshot (never mutated)
          scores,        \* results["scores"]
          issues,        \* results["issues"]
          recommendations, \* results["recommendations"]
          summary,       \* results: timestamp, overall_status and the keys generate_report adds
          pc,            \* position of run_all_checks: 0 idle, 1..8 next check, 9 after the loop
          total_score,   \* local total_score of run_all_checks
          evaluated,     \* checks invoked by the current run, in order
          failed,        \* checks of the current run that raised
          printed,       \* the summary run_all_checks printed in the current run
          reports,       \* reports returned so far (their content when returned)
          cli            \* main(): the arguments it was given and its exit code

\* scorecard-compare.py
VARIABLES current_checks,  \* the "checks" list of the current scorecard
          baseline_checks, \* the "checks" list of the baseline scorecard
          analysis,        \* the dict analyze_individual_checks returned, in its order
          actions,         \* the list identify_priority_actions returned
          cpc,             \* position: "idle", "start", "loaded", "analyzed", "identified", "exited"
          scorecards,      \* main(): the two files named on the command line
          result           \* main(): its arguments, what it wrote and printed, its exit code

\* link_validation_script.py
VARIABLES content,         \* the links written in the scanned file, one per line
          valid_links,     \* LinkValidator.valid_links
          broken_links,    \* LinkValidator.broken_links
          anchor_issues,   \* LinkValidator.anchor_issues
          returned,        \* the outcome of each call of validate_link, in order
          lpc,             \* position: "idle", "scanning", "scanned", "raised", "reported"
          summary_lines    \* the Summary figures of generate_report

checker_vars == <<snap, scores, issues, recommendations, summary, pc, total_score,
                  evaluated, failed, printed, reports, cli>>

compare_vars == <<current_checks, baseline_checks, analysis, actions, cpc, scorecards, result>>

link_vars == <<content, valid_links, broken_links, anchor_issues, returned, lpc,
               summary_lines>>

vars == <<checker_vars, compare_vars, link_vars>>

----------------------------------------------------------------------------
(* Bounds *)

\* number of times run_all_checks is invoked on the instance
MaxRuns == 2

----------------------------------------------------------------------------
(* Lines of text and what the script's substring and regex tests see        *)

Assign(w, n) == [k |-> "assign", w |-> w, a |-> "", n |-> n]
Call(w, a)   == [k |-> "call", w |-> w, a |-> a, n |-> 0]
Word(w)      == [k |-> "word", w |-> w, a |-> "", n |-> 0]
Script(w)    == [k |-> "script", w |-> w, a |-> "", n |-> 0]
Dep(w)       == [k |-> "dep", w |-> w, a |-> "", n |-> 0]
Junk         == [k |-> "junk", w |-> "", a |-> "", n |-> 0]

\* str.lower() on the words of the vocabulary
Lower(w) ==
    CASE w = "TELEGRAM_ALLOWED_USERS" -> "telegram_allowed_users"
      [] w = "MCP_API_KEYS"           -> "mcp_api_keys"
      [] w = "RATE_LIMIT"             -> "rate_limit"
      [] w = "SecurityManager"        -> "securitymanager"
      [] OTHER                        -> w

\* the needles of the script that occur in a word (case-sensitive "in")
Substrings(w) ==
    CASE w = "process.env"            -> {"process.env"}
      [] w = "TELEGRAM_ALLOWED_USERS" -> {"TELEGRAM_ALLOWED_USERS"}
      [] w = "MCP_API_KEYS"           -> {"MCP_API_KEYS"}
      [] w = "rate_limit"             -> {"rate_limit", "rate", "limit"}
      [] w = "SecurityManager"        -> {"SecurityManager"}
      [] w = "validate"               -> {"validate"}
      [] w = "permissions:"           -> {"permissions:"}
      [] w = "audit"                  -> {"audit"}
      [] w = "security:audit"         -> {"audit"}
      [] w = "helmet"                 -> {"helmet"}
      [] w = "express-rate-limit"     -> {"express-rate-limit", "rate", "limit"}
      [] w = "joi"                    -> {"joi"}
      [] w = "log"                    -> {"log"}
      [] w = "println!"               -> {"println!"}
      [] w = "console.log"            -> {"console.log", "log"}
      [] OTHER                        -> {}

\* the words a line shows to a substring test
LineWords(l) == IF l.k = "junk" THEN {} ELSE {l.w} \cup (IF l.k = "call" THEN {l.a} ELSE {})

\* needle in content
Contains(lines, needle) ==
    \E l \in lines : \E w \in LineWords(l) : needle \in Substrings(w) \/ needle = w

\* needle in content.lower()
ContainsLower(lines, needle) ==
    \E l \in lines : \E w \in LineWords(l) :
        needle \in Substrings(Lower(w)) \/ needle = Lower(w)

----------------------------------------------------------------------------
(* Rules of the two pattern-scanning checks                                 *)

\* hardcoded_patterns of check_environment_variables:
\*   <kw>\s*=\s*["'][^"']{min,}["']   (re.IGNORECASE)
hardcoded_patterns ==
    << [kw |-> "token",    min |-> 20, description |-> "Hardcoded token"],
       [kw |-> "key",      min |-> 16, description |-> "Hardcoded key"],
       [kw |-> "password", min |-> 8,  description |-> "Hardcoded password"],
       [kw |-> "secret",   min |-> 12, description |-> "Hardcoded secret"] >>

\* re.findall(pattern, content, re.IGNORECASE) is non-empty
FindAll(rule, lines) ==
    \E l \in lines : l.k = "assign" /\ l.w = rule.kw /\ l.n >= rule.min

\* sensitive_log_patterns of check_logging_security:  <pre>.*<word>
sensitive_log_patterns ==
    << [pre |-> "log",         word |-> "password", description |-> "Password in logs"],
       [pre |-> "log",         word |-> "token",    description |-> "Token in logs"],
       [pre |-> "log",         word |-> "key",      description |-> "Key in logs"],
       [pre |-> "println!",    word |-> "password", description |-> "Password in Rust logs"],
       [pre |-> "console.log", word |-> "password", description |-> "Password in JS logs"] >>

\* re.search(pattern, content, re.IGNORECASE) succeeds
Search(rule, lines) ==
    \E l \in lines : l.k = "call" /\ (rule.pre = l.w \/ rule.pre \in Substrings(l.w))
                                  /\ rule.word = l.a

----------------------------------------------------------------------------
(* Paths and file states                                                    *)

sensitive_files == << ".env", "config.toml", "mcp-server/.env", "mcp-server/config.json" >>

\* the *.rs files below src and the *.ts files below mcp-server/src
BridgeSrc == << "src/telegram/handlers.rs", "src/utils/security.rs" >>
McpSrc    == << "mcp-server/src/security.ts", "mcp-server/src/index.ts" >>

security_workflows == << "security-enhanced.yml", "scorecard.yml", "slsa-provenance.yml" >>
WorkflowPath(w) == ".github/workflows/" \o w

Range(s) == {s[i] : i \in 1..Len(s)}

SensitivePaths == Range(sensitive_files)
SrcPaths       == Range(BridgeSrc) \cup Range(McpSrc)
ExamplePaths   == {"config.example.toml", "mcp-server/.env.example"}
LockPaths      == {"Cargo.lock", "mcp-server/package-lock.json"}
PackageJson    == "mcp-server/package.json"
\* the *.yml files below .github/workflows
WorkflowFiles  == [i \in 1..Len(security_workflows) |-> WorkflowPath(security_workflows[i])]
WorkflowPaths  == Range(WorkflowFiles)

Paths == SensitivePaths \cup SrcPaths \cup ExamplePaths \cup LockPaths
            \cup {PackageJson} \cup WorkflowPaths

\* paths below self.mcp_root
McpPaths == {"mcp-server/.env", "mcp-server/config.json", "mcp-server/.env.example",
             "mcp-server/package-lock.json", PackageJson, "mcp-server/src"}
              \cup Range(McpSrc)

\* kind: "absent", "denied" (open raises PermissionError), "binary" (decoding
\* raises UnicodeDecodeError) or "text"; mode: the three octal digits of st_mode
Absent       == [kind |-> "absent", mode |-> "600", lines |-> {}]
Denied       == [kind |-> "denied", mode |-> "600", lines |-> {}]
Binary       == [kind |-> "binary", mode |-> "600", lines |-> {}]
Text(m, ls)  == [kind |-> "text", mode |-> m, lines |-> ls]

\* int(permissions[2])
OthersDigit(mode) ==
    CASE mode = "600" -> 0
      [] mode = "640" -> 0
      [] mode = "644" -> 4

----------------------------------------------------------------------------
(* Snapshots the model is run on                                            *)

\* a leaking source file: token = "<26 chars>", console.log(password), log(token)
T_leak == { Assign("token", 26), Call("console.log", "password"), Call("log", "token") }
\* the same file reading its secrets from the environment
T_safe == T_leak \cup { Word("process.env") }
\* a file with the authentication, rate limiting and validation markers and
\* a token too short for the hardcoded-token rule
T_good == { Word("TELEGRAM_ALLOWED_USERS"), Word("MCP_API_KEYS"), Word("RATE_LIMIT"),
            Word("validate"), Assign("token", 19) }

SrcStates == { Absent, Denied, Binary, Text("644", T_leak), Text("644", T_safe),
               Text("644", T_good) }

SensitiveStates == { Absent, Text("600", {}), Text("644", {}) }

PresenceStates == { Absent, Text("644", {}) }

PackageStates ==
    { Absent, Denied, Binary,
      Text("644", {Junk}),
      Text("644", {}),
      Text("644", {Script("security:audit"), Dep("helmet"), Dep("joi")}),
      Text("644", {Script("audit"), Dep("express-rate-limit")}),
      Text("644", {Dep("express-rate-limit"), Dep("joi")}) }

WorkflowStates == { Absent, Denied, Text("644", {}), Text("644", {Word("permissions:")}) }

\* nothing but an empty project directory
Bare ==
    [locked |-> "none", wfdir |-> FALSE, rs |-> BridgeSrc, ts |-> McpSrc,
     wf |-> WorkflowFiles,
     files |-> [p \in Paths |-> Absent]]

\* every file present and in order
Healthy ==
    [locked |-> "none", wfdir |-> TRUE, rs |-> BridgeSrc, ts |-> McpSrc,
     wf |-> WorkflowFiles,
     files |-> [p \in Paths |->
        CASE p \in SensitivePaths -> Text("600", {})
          [] p \in SrcPaths       -> Text("644", T_good)
          [] p = PackageJson      -> Text("644", {Script("audit"), Dep("helmet"),
                                                  Dep("express-rate-limit"), Dep("joi")})
          [] p \in WorkflowPaths  -> Text("644", {Word("permissions:")})
          [] OTHER                -> Text("644", {})]]

Bases == {Bare, Healthy}

\* f overrides the files of base on the domain of f
Override(base, f) ==
    [base EXCEPT !.files = [p \in Paths |-> IF p \in DOMAIN f THEN f[p] ELSE base.files[p]]]

\* projects in which every group of files is in one state throughout: the
\* sensitive files, the source files, the example files, the lock files,
\* package.json and the workflows
Mixed ==
    { [Override(Healthy,
          [p \in Paths |->
              CASE p \in SensitivePaths -> a
                [] p \in SrcPaths       -> b
                [] p \in ExamplePaths   -> c
                [] p \in LockPaths      -> d
                [] p = PackageJson      -> IF e THEN Healthy.files[p] ELSE Absent
                [] p \in WorkflowPaths  -> w])
       EXCEPT !.wfdir = (w.kind # "absent")] :
        a \in SensitiveStates,
        b \in {Absent, Text("644", T_good), Text("644", T_leak)},
        c \in PresenceStates, d \in PresenceStates, e \in BOOLEAN,
        w \in {Absent, Text("644", {}), Text("644", {Word("permissions:")})} }

\* the orders in which a directory listing can return its files
Orders(listing) ==
    { [i \in 1..Len(listing) |-> listing[f[i]]] :
        f \in { g \in [1..Len(listing) -> 1..Len(listing)] :
                  \A i, j \in 1..Len(listing) : g[i] = g[j] => i = j } }

\* the snapshots: a base project in which one group of files takes every
\* combination of states (the source files also in every listing order), or
\* in which a directory cannot be searched; and the mixed projects
Snapshots ==
    Mixed \cup
    UNION { { Override(b, f) : f \in [SensitivePaths -> SensitiveStates] }
            \cup { [Override(b, f) EXCEPT !.rs = r, !.ts = t] :
                       f \in [SrcPaths -> SrcStates], r \in Orders(BridgeSrc),
                       t \in Orders(McpSrc) }
            \cup { Override(b, f) : f \in [ExamplePaths \cup LockPaths -> PresenceStates] }
            \cup { Override(b, f) : f \in [{PackageJson} -> PackageStates] }
            \cup { [Override(b, f) EXCEPT !.wfdir = TRUE, !.wf = w] :
                       f \in [WorkflowPaths -> WorkflowStates], w \in Orders(WorkflowFiles) }
            \cup { [b EXCEPT !.locked = "mcp"], [b EXCEPT !.locked = "root"],
                   [Override(b, [p \in WorkflowPaths |-> Absent]) EXCEPT !.wfdir = FALSE] }
          : b \in Bases }

----------------------------------------------------------------------------
(* File system primitives                                                   *)

\* str(e) of the exceptions the file system raises: PermissionError,
\* UnicodeDecodeError (a file starting with the byte 0xff) and
\* json.JSONDecodeError (a file that does not start with a JSON value)
PermissionDenied(p) == "[Errno 13] Permission denied: '" \o p \o "'"
UndecodableText == "'utf-8' codec can't decode byte 0xff in position 0: invalid start byte"
InvalidJson == "Expecting value: line 1 column 1 (char 0)"

\* stat() of p fails with EACCES: a directory above p cannot be searched
Locked(p) == snap.locked = "root" \/ (snap.locked = "mcp" /\ p \in McpPaths)

\* Path.exists(): raises PermissionError when a parent cannot be searched
Exists(p) ==
    IF Locked(p) THEN [raised |-> TRUE, err |-> PermissionDenied(p), val |-> FALSE]
    ELSE [raised |-> FALSE, err |-> "",
          val |-> IF p \in Paths THEN snap.files[p].kind # "absent"
                  ELSE IF p = ".github/workflows" THEN snap.wfdir
                  ELSE IF p = "src" THEN \E q \in Range(BridgeSrc) : snap.files[q].kind # "absent"
                  ELSE \E q \in Range(McpSrc) : snap.files[q].kind # "absent"]

\* Path.read_text() of an existing file
ReadText(p) ==
    LET f == snap.files[p] IN
    CASE f.kind = "denied" -> [raised |-> TRUE, err |-> PermissionDenied(p), lines |-> {}]
      [] f.kind = "binary" -> [raised |-> TRUE, err |-> UndecodableText, lines |-> {}]
      [] OTHER             -> [raised |-> FALSE, err |-> "", lines |-> f.lines]

\* the existing files among a listing
Present(listing) == SelectSeq(listing, LAMBDA p : snap.files[p].kind # "absent")

\* list(dir.rglob(pattern)): raises PermissionError when dir cannot be
\* examined, is empty when dir does not exist
RGlob(dir, listing) ==
    IF Locked(dir) THEN [raised |-> TRUE, err |-> PermissionDenied(dir), val |-> <<>>]
    ELSE [raised |-> FALSE, err |-> "", val |-> Present(listing)]

----------------------------------------------------------------------------
(* The issue log                                                            *)

\* the dict log_issue appends
Issue(component, severity, message, recommendation) ==
    [component |-> component, severity |-> severity, message |-> message,
     recommendation |-> recommendation]

\* the dict log_recommendation appends
Recommendation(component, message) == [component |-> component, message |-> message]

\* The run of one check: whether it raised, the exception, the local score,
\* and what it appended to results["issues"] and results["recommendations"]
\* up to the point it returned or raised.
Begin(score) ==
    [raised |-> FALSE, err |-> "", score |-> score, issues |-> <<>>, recs |-> <<>>]

Raise(e, err)     == [e EXCEPT !.raised = TRUE, !.err = err]
Add(e, n)         == [e EXCEPT !.score = @ + n]
log_issue(e, component, severity, message, recommendation) ==
    [e EXCEPT !.issues = Append(@, Issue(component, severity, message, recommendation))]
log_recommendation(e, component, message) ==
    [e EXCEPT !.recs = Append(@, Recommendation(component, message))]

----------------------------------------------------------------------------
(* check_file_permissions                                                   *)

\* the file is readable by others: int(permissions[2]) > 0
ReadableByOthers(mode) == OthersDigit(mode) > 0

RECURSIVE FilePermissionsFrom(_, _)
FilePermissionsFrom(i, e) ==
    IF i > Len(sensitive_files) THEN e
    ELSE LET file_path == sensitive_files[i]
             x == Exists(file_path)
             permissions == snap.files[file_path].mode
         IN IF x.raised THEN Raise(e, x.err)
            ELSE IF x.val /\ ReadableByOthers(permissions)
                 THEN FilePermissionsFrom(i + 1,
                        log_issue(Add(e, -2), "FilePermissions", "warning",
                                  file_path \o " is readable by others (permissions: "
                                            \o permissions \o ")",
                                  "Run: chmod 600 " \o file_path))
                 ELSE FilePermissionsFrom(i + 1, e)

check_file_permissions == FilePermissionsFrom(1, Begin(10))

----------------------------------------------------------------------------
(* check_environment_variables and _check_file_for_patterns                 *)

\* SecretRuleReported without the test for the safe marker
SecretRuleReported_NoMarker(rule, lines) == FindAll(rule, lines)

\* the condition under which _check_file_for_patterns reports a rule:
\* matches and "process.env" not in content
SecretRuleReported(rule, lines) ==
    FindAll(rule, lines) /\ ~Contains(lines, "process.env")

\* the loop over the patterns; r is the log and the helper's local score
RECURSIVE ScanPatterns(_, _, _, _, _)
ScanPatterns(i, patterns, lines, file_path, r) ==
    IF i > Len(patterns) THEN r
    ELSE IF SecretRuleReported(patterns[i], lines)
         THEN ScanPatterns(i + 1, patterns, lines, file_path,
                [e |-> log_issue(r.e, "HardcodedSecrets", "critical",
                                 patterns[i].description \o " found in " \o file_path,
                                 "Move secrets to environment variables"),
                 score |-> r.score - 3])
         ELSE ScanPatterns(i + 1, patterns, lines, file_path, r)

\* _check_file_for_patterns(file_path, patterns, score): the log after the
\* call and the score it returns; a failed read is skipped
check_file_for_patterns(e, file_path, patterns, score) ==
    LET t == ReadText(file_path) IN
    IF t.raised THEN [e |-> e, score |-> score]
    ELSE ScanPatterns(1, patterns, t.lines, file_path, [e |-> e, score |-> score])

\* what check_environment_variables keeps of a call of the helper: the call
\* is a statement, its return value is dropped and the local score of the
\* check is left as it was
AfterPatternCall(e, r) == [r.e EXCEPT !.score = e.score]

RECURSIVE EnvScanFiles(_, _, _)
EnvScanFiles(j, files, e) ==
    IF j > Len(files) THEN e
    ELSE EnvScanFiles(j + 1, files,
            AfterPatternCall(e, check_file_for_patterns(e, files[j], hardcoded_patterns, e.score)))

\* source_dirs with the *.rs and *.ts files rglob lists in each
source_dirs == << [dir |-> "src", files |-> snap.rs],
                  [dir |-> "mcp-server/src", files |-> snap.ts] >>

RECURSIVE EnvScanDirs(_, _)
EnvScanDirs(i, e) ==
    IF i > Len(source_dirs) THEN e
    ELSE LET x == Exists(source_dirs[i].dir) IN
         IF x.raised THEN Raise(e, x.err)
         ELSE IF x.val
              THEN EnvScanDirs(i + 1, EnvScanFiles(1, Present(source_dirs[i].files), e))
              ELSE EnvScanDirs(i + 1, e)

env_examples == << [path |-> "config.example.toml", name |-> "config.example.toml",
                    component |-> "Bridge"],
                   [path |-> "mcp-server/.env.example", name |-> ".env.example",
                    component |-> "MCP Server"] >>

RECURSIVE EnvExamples(_, _)
EnvExamples(i, e) ==
    IF e.raised \/ i > Len(env_examples) THEN e
    ELSE LET x == Exists(env_examples[i].path) IN
         IF x.raised THEN Raise(e, x.err)
         ELSE IF x.val THEN EnvExamples(i + 1, e)
              ELSE EnvExamples(i + 1,
                     log_recommendation(Add(e, -1), env_examples[i].component,
                        "Create " \o env_examples[i].name \o " with example configuration"))

check_environment_variables == EnvExamples(1, EnvScanDirs(1, Begin(10)))

----------------------------------------------------------------------------
(* The presence checks: authentication, rate limiting, input validation     *)

\* the marker tests of the _check_* helpers
HasMarker(kind, lines) ==
    CASE kind = "bridge_auth" ->
            Contains(lines, "TELEGRAM_ALLOWED_USERS") \/ Contains(lines, "user_id")
      [] kind = "mcp_auth" ->
            Contains(lines, "MCP_API_KEYS") \/ Contains(lines, "authenticate")
      [] kind = "bridge_rate" ->
            ContainsLower(lines, "rate_limit") \/ ContainsLower(lines, "throttle")
      [] kind = "mcp_rate" ->
            ContainsLower(lines, "rate") /\ ContainsLower(lines, "limit")
      [] kind = "bridge_validation" ->
            \E indicator \in {"sanitize", "validate", "SecurityManager"} :
                Contains(lines, indicator)
      [] kind = "mcp_package_validation" ->
            ContainsLower(lines, "joi") \/ ContainsLower(lines, "validator")
      [] kind = "mcp_validation" ->
            ContainsLower(lines, "validate") \/ ContainsLower(lines, "sanitize")

\* for f in files: if f.exists(): content = f.read_text(); if <marker>: return True
\* ... return False.  The read is not guarded: a failed read raises.
RECURSIVE FirstWith(_, _, _)
FirstWith(i, files, kind) ==
    IF i > Len(files) THEN [raised |-> FALSE, err |-> "", val |-> FALSE]
    ELSE LET x == Exists(files[i]) IN
         IF x.raised THEN x
         ELSE IF ~x.val THEN FirstWith(i + 1, files, kind)
              ELSE LET t == ReadText(files[i]) IN
                   IF t.raised THEN [raised |-> TRUE, err |-> t.err, val |-> FALSE]
                   ELSE IF HasMarker(kind, t.lines)
                        THEN [raised |-> FALSE, err |-> "", val |-> TRUE]
                        ELSE FirstWith(i + 1, files, kind)

check_bridge_auth_config ==
    FirstWith(1, << "src/telegram/handlers.rs", "src/utils/security.rs" >>, "bridge_auth")

check_mcp_auth_config ==
    FirstWith(1, << "mcp-server/src/security.ts", "mcp-server/src/index.ts" >>, "mcp_auth")

check_bridge_rate_limiting ==
    FirstWith(1, << "src/utils/security.rs", "src/telegram/handlers.rs" >>, "bridge_rate")

check_mcp_rate_limiting ==
    FirstWith(1, << "mcp-server/src/security.ts", PackageJson >>, "mcp_rate")

check_bridge_input_validation ==
    LET src_files == RGlob("src", snap.rs) IN
    IF src_files.raised THEN [raised |-> TRUE, err |-> src_files.err, val |-> FALSE]
    ELSE FirstWith(1, src_files.val, "bridge_validation")

check_mcp_input_validation ==
    LET pkg == FirstWith(1, << PackageJson >>, "mcp_package_validation")
        src_files == RGlob("mcp-server/src", snap.ts)
    IN IF pkg.raised \/ pkg.val THEN pkg
       ELSE IF src_files.raised THEN [raised |-> TRUE, err |-> src_files.err, val |-> FALSE]
       ELSE FirstWith(1, src_files.val, "mcp_validation")

\* if <helper>(): score += weight  else: log_issue(...)
Component(e, r, weight, component, severity, message, recommendation) ==
    IF e.raised THEN e
    ELSE IF r.raised THEN Raise(e, r.err)
    ELSE IF r.val THEN Add(e, weight)
    ELSE log_issue(e, component, severity, message, recommendation)

check_authentication_config ==
    Component(
        Component(Begin(0), check_bridge_auth_config, 5, "BridgeAuth", "warning",
                  "Bridge authentication may not be properly configured",
                  "Ensure TELEGRAM_ALLOWED_USERS is set"),
        check_mcp_auth_config, 5, "MCPAuth", "warning",
        "MCP Server authentication may not be properly configured",
        "Ensure MCP_API_KEYS is configured")

check_rate_limiting ==
    Component(
        Component(Begin(0), check_bridge_rate_limiting, 5, "BridgeRateLimit", "medium",
                  "Bridge rate limiting not found",
                  "Implement rate limiting for user requests"),
        check_mcp_rate_limiting, 5, "MCPRateLimit", "medium",
        "MCP Server rate limiting not found",
        "Implement rate limiting for API requests")

check_input_validation ==
    Component(
        Component(Begin(0), check_bridge_input_validation, 5, "BridgeValidation", "high",
                  "Bridge input validation not comprehensive",
                  "Implement comprehensive input sanitization"),
        check_mcp_input_validation, 5, "MCPValidation", "high",
        "MCP Server input validation not found",
        "Implement input validation with Joi or similar")

----------------------------------------------------------------------------
(* check_logging_security                                                   *)

\* the condition under which check_logging_security reports a rule
LogRuleReported(rule, lines) == Search(rule, lines)

RECURSIVE LogPatterns(_, _, _, _)
LogPatterns(i, lines, file_path, e) ==
    IF i > Len(sensitive_log_patterns) THEN e
    ELSE IF LogRuleReported(sensitive_log_patterns[i], lines)
         THEN LogPatterns(i + 1, lines, file_path,
                log_issue(Add(e, -2), "LoggingSecurity", "medium",
                          sensitive_log_patterns[i].description \o " in " \o file_path,
                          "Remove sensitive data from logs"))
         ELSE LogPatterns(i + 1, lines, file_path, e)

\* the loop over all_source_files; UnicodeDecodeError and PermissionError are
\* caught per file
RECURSIVE LogFiles(_, _, _)
LogFiles(j, files, e) ==
    IF j > Len(files) THEN e
    ELSE LET t == ReadText(files[j]) IN
         IF t.raised THEN LogFiles(j + 1, files, e)
         ELSE LogFiles(j + 1, files, LogPatterns(1, t.lines, files[j], e))

check_logging_security ==
    LET rs == RGlob("src", snap.rs)
        ts == RGlob("mcp-server/src", snap.ts)
    IN IF rs.raised THEN Raise(Begin(10), rs.err)
       ELSE IF ts.raised THEN Raise(Begin(10), ts.err)
       ELSE LogFiles(1, rs.val \o ts.val, Begin(10))

----------------------------------------------------------------------------
(* check_dependency_security                                                *)

\* if (root / name).exists(): score += 2  else: log_issue(...)
LockFile(e, path, component, message, recommendation) ==
    IF e.raised THEN e
    ELSE LET x == Exists(path) IN
         IF x.raised THEN Raise(e, x.err)
         ELSE IF x.val THEN Add(e, 2)
         ELSE log_issue(e, component, "medium", message, recommendation)

\* any("audit" in script for script in scripts.keys())
HasAuditScript(lines) ==
    \E l \in lines : l.k = "script" /\ (l.w = "audit" \/ "audit" \in Substrings(l.w))

\* "helmet" in deps or "express-rate-limit" in deps
HasSecurityDep(lines) ==
    \E l \in lines : l.k = "dep" /\ l.w \in {"helmet", "express-rate-limit"}

\* one of the two blocks on mcp-server/package.json:
\* if exists: content = json.loads(read_text()); if <found>: score += 3 else: recommend
PackageBlock(e, block) ==
    IF e.raised THEN e
    ELSE LET x == Exists(PackageJson) IN
         IF x.raised THEN Raise(e, x.err)
         ELSE IF ~x.val THEN e
         ELSE LET t == ReadText(PackageJson) IN
              IF t.raised THEN Raise(e, t.err)
              ELSE IF Junk \in t.lines THEN Raise(e, InvalidJson)
              ELSE IF block = "scripts"
                   THEN IF HasAuditScript(t.lines) THEN Add(e, 3)
                        ELSE log_recommendation(e, "MCPDeps",
                                "Add npm audit scripts to package.json")
                   ELSE IF HasSecurityDep(t.lines) THEN Add(e, 3)
                        ELSE log_recommendation(e, "MCPDeps",
                                "Consider adding security dependencies like helmet")

check_dependency_security ==
    PackageBlock(
      PackageBlock(
        LockFile(
          LockFile(Begin(0), "Cargo.lock", "BridgeDeps", "Cargo.lock not found",
                   "Run cargo build to generate Cargo.lock"),
          "mcp-server/package-lock.json", "MCPDeps", "package-lock.json not found",
          "Run npm install to generate package-lock.json"),
        "scripts"),
      "dependencies")

----------------------------------------------------------------------------
(* check_ci_security                                                        *)

RECURSIVE SecurityWorkflows(_, _)
SecurityWorkflows(i, e) ==
    IF i > Len(security_workflows) THEN e
    ELSE IF snap.files[WorkflowPath(security_workflows[i])].kind # "absent"
         THEN SecurityWorkflows(i + 1, Add(e, 3))
         ELSE SecurityWorkflows(i + 1,
                log_recommendation(e, "CI/CD",
                    "Consider adding " \o security_workflows[i] \o " security workflow"))

\* the loop over workflows_dir.glob("*.yml"); the read is not guarded
RECURSIVE WorkflowPermissions(_, _, _)
WorkflowPermissions(j, files, e) ==
    IF j > Len(files) THEN e
    ELSE LET t == ReadText(files[j]) IN
         IF t.raised THEN Raise(e, t.err)
         ELSE IF Contains(t.lines, "permissions:")
              THEN WorkflowPermissions(j + 1, files, Add(e, 1))
              ELSE WorkflowPermissions(j + 1, files, e)

\* score = min(score, 10)
Cap(e) == IF e.raised \/ e.score <= 10 THEN e ELSE [e EXCEPT !.score = 10]

check_ci_security ==
    LET x == Exists(".github/workflows")
        workflow_files == Present(snap.wf)
    IN IF x.raised THEN Raise(Begin(0), x.err)
       ELSE IF x.val
            THEN Cap(WorkflowPermissions(1, workflow_files, SecurityWorkflows(1, Begin(0))))
            ELSE Cap(log_issue(Begin(0), "CI/CD", "medium", "No CI/CD workflows found",
                               "Set up GitHub Actions workflows for security"))

----------------------------------------------------------------------------
(* generate_report and run_all_checks                                       *)

\* the checks list of run_all_checks, with the key each check records its
\* score under
checks ==
    << [name |-> "File Permissions",      key |-> "file_permissions"],
       [name |-> "Environment Variables", key |-> "environment_variables"],
       [name |-> "Authentication",        key |-> "authentication"],
       [name |-> "Rate Limiting",         key |-> "rate_limiting"],
       [name |-> "Input Validation",      key |-> "input_validation"],
       [name |-> "Logging Security",      key |-> "logging_security"],
       [name |-> "Dependency Security",   key |-> "dependency_security"],
       [name |-> "CI/CD Security",        key |-> "ci_security"] >>

\* check_func()
check_func(i) ==
    CASE i = 1 -> check_file_permissions
      [] i = 2 -> check_environment_variables
      [] i = 3 -> check_authentication_config
      [] i = 4 -> check_rate_limiting
      [] i = 5 -> check_input_validation
      [] i = 6 -> check_logging_security
      [] i = 7 -> check_dependency_security
      [] i = 8 -> check_ci_security

\* (total / max) * 100 as the exact fraction num / den
Percentage(total, max) == [num |-> 100 * total, den |-> max]

\* AtLeast with an exclusive lower bound
AtLeast_Exclusive(percentage, threshold) == percentage.num > threshold * percentage.den

\* percentage >= threshold
AtLeast(percentage, threshold) == percentage.num >= threshold * percentage.den

\* the if / elif chain over the percentage
Band(percentage) ==
    IF AtLeast(percentage, 90) THEN "excellent"
    ELSE IF AtLeast(percentage, 80) THEN "good"
    ELSE IF AtLeast(percentage, 70) THEN "fair"
    ELSE IF AtLeast(percentage, 60) THEN "poor"
    ELSE "critical"

RECURSIVE SumOver(_, _)
SumOver(f, keys) ==
    IF keys = {} THEN 0
    ELSE LET k == CHOOSE k \in keys : TRUE IN f[k] + SumOver(f, keys \ {k})

\* sum(scores.values())
Sum(f) == SumOver(f, DOMAIN f)

\* what the exception handler of run_all_checks does with the scores
ScoresAfterFailure(old, key) == old

\* NextCheck when the try statement encloses the whole loop
NextCheck_Abort(i, raised) == IF raised THEN Len(checks) + 1 ELSE i + 1

\* the position of the loop after check i returned or raised: the try
\* statement is inside the loop body, the loop goes on
NextCheck(i, raised) == i + 1

\* len(scores) * 10
MaxScore(s) == Cardinality(DOMAIN s) * 10

\* the fields generate_report sets; timestamp counts the calls
generate_report(old, s) ==
    IF DOMAIN s # {}
    THEN [timestamp      |-> old.timestamp + 1,
          overall_status |-> Band(Percentage(Sum(s), MaxScore(s))),
          has_totals     |-> TRUE,
          overall_score  |-> Sum(s),
          max_score      |-> MaxScore(s),
          percentage     |-> Percentage(Sum(s), MaxScore(s))]
    ELSE [old EXCEPT !.timestamp = @ + 1]

\* self.results as returned
Report(sm, s, is, rs) ==
    [timestamp |-> sm.timestamp, overall_status |-> sm.overall_status,
     scores |-> s, issues |-> is, recommendations |-> rs,
     has_totals |-> sm.has_totals, overall_score |-> sm.overall_score,
     max_score |-> sm.max_score, percentage |-> sm.percentage]

NoScores == [k \in {} |-> 0]

NothingPrinted == [done |-> FALSE, total |-> 0, max |-> 0,
                   percentage |-> Percentage(0, 1), band |-> ""]

\* main() has not returned: no arguments read, no exit code
NotExited == -1

NotStarted == [fail_on_critical |-> FALSE, output |-> "none", exit_code |-> NotExited]

\* link_validation_script.py is not running
NoSummary == [total |-> 0, valid |-> 0, broken |-> 0, anchor |-> 0]

LinksIdle ==
    /\ content = <<>>
    /\ valid_links = <<>>
    /\ broken_links = <<>>
    /\ anchor_issues = <<>>
    /\ returned = <<>>
    /\ lpc = "idle"
    /\ summary_lines = NoSummary

\* the content of a file: kind is "missing", "invalid" (not JSON), "array"
\* (JSON, but not an object) or "object"; an object has a "score" and a
\* "checks" key that is absent, an empty object or a list of check records
File(kind, score, checks_type, checks_list) ==
    [kind |-> kind, score |-> score, checks_type |-> checks_type, checks |-> checks_list]

NoFiles == [current |-> File("missing", 0, "absent", <<>>),
            baseline |-> File("missing", 0, "absent", <<>>)]

\* main() of scorecard-compare.py has written nothing and has not exited
NoOutput == [output_format |-> "markdown", output_file |-> FALSE, exit_on_decline |-> FALSE,
             markdown |-> "none", json |-> "none", json_printed |-> FALSE,
             stderr |-> "", exit_code |-> NotExited]

\* scorecard-compare.py is not running
CompareIdle ==
    /\ current_checks = <<>>
    /\ baseline_checks = <<>>
    /\ analysis = <<>>
    /\ actions = <<>>
    /\ cpc = "idle"
    /\ scorecards = NoFiles
    /\ result = NoOutput

\* SecurityConfigChecker(project_root) for a snapshot of the project
Init ==
    /\ snap \in Snapshots
    /\ scores = NoScores
    /\ issues = <<>>
    /\ recommendations = <<>>
    /\ summary = [timestamp |-> 0, overall_status |-> "pending", has_totals |-> FALSE,
                  overall_score |-> 0, max_score |-> 0, percentage |-> Percentage(0, 1)]
    /\ pc = 0
    /\ total_score = 0
    /\ evaluated = <<>>
    /\ failed = {}
    /\ printed = NothingPrinted
    /\ reports = <<>>
    /\ cli = NotStarted
    /\ CompareIdle
    /\ LinksIdle

\* Start that begins every run with empty logs
Start_ClearsLog ==
    /\ pc = 0
    /\ Len(reports) < MaxRuns
    /\ cli.exit_code = NotExited
    /\ pc' = 1
    /\ total_score' = 0
    /\ evaluated' = <<>>
    /\ failed' = {}
    /\ printed' = NothingPrinted
    /\ issues' = <<>>
    /\ recommendations' = <<>>
    /\ UNCHANGED <<snap, scores, summary, reports, cli>>
    /\ UNCHANGED compare_vars
    /\ UNCHANGED link_vars

\* run_all_checks is called: total_score = 0
Start ==
    /\ pc = 0
    /\ Len(reports) < MaxRuns
    /\ cli.exit_code = NotExited
    /\ pc' = 1
    /\ total_score' = 0
    /\ evaluated' = <<>>
    /\ failed' = {}
    /\ printed' = NothingPrinted
    /\ UNCHANGED <<snap, scores, issues, recommendations, summary, reports, cli>>
    /\ UNCHANGED compare_vars
    /\ UNCHANGED link_vars

\* one iteration of the loop of run_all_checks: try check_func() / except
RunCheck(i) ==
    /\ pc = i
    /\ LET out == check_func(i) IN
       /\ issues' = issues \o out.issues \o
                     (IF out.raised
                      THEN << Issue("SystemError", "critical",
                                    "Check failed: " \o checks[i].name \o " - " \o out.err,
                                    "") >>
                      ELSE << >>)
       /\ recommendations' = recommendations \o out.recs
       /\ scores' = IF out.raised THEN ScoresAfterFailure(scores, checks[i].key)
                    ELSE (checks[i].key :> out.score) @@ scores
       /\ total_score' = IF out.raised THEN total_score ELSE total_score + out.score
       /\ failed' = IF out.raised THEN failed \cup {checks[i].name} ELSE failed
    /\ evaluated' = Append(evaluated, checks[i].name)
    /\ pc' = NextCheck(i, check_func(i).raised)
    /\ UNCHANGED <<snap, summary, printed, reports, cli>>
    /\ UNCHANGED compare_vars
    /\ UNCHANGED link_vars

FilePermissions      == RunCheck(1)
EnvironmentVariables == RunCheck(2)
Authentication       == RunCheck(3)
RateLimiting         == RunCheck(4)
InputValidation      == RunCheck(5)
LoggingSecurity      == RunCheck(6)
DependencySecurity   == RunCheck(7)
CiSecurity           == RunCheck(8)

\* the end of run_all_checks: print the summary, return generate_report()
Finish ==
    /\ pc = Len(checks) + 1
    /\ printed' = [done |-> TRUE, total |-> total_score, max |-> Len(checks) * 10,
                   percentage |-> Percentage(total_score, Len(checks) * 10),
                   band |-> Band(Percentage(total_score, Len(checks) * 10))]
    /\ summary' = generate_report(summary, scores)
    /\ reports' = Append(reports, Report(summary', scores, issues, recommendations))
    /\ pc' = 0
    /\ UNCHANGED <<snap, scores, issues, recommendations, total_score, evaluated, failed, cli>>
    /\ UNCHANGED compare_vars
    /\ UNCHANGED link_vars

\* main(), lines 569-577: the exit code for a returned report.  Writing the
\* report to an unwritable --output raises inside the try: ERROR, exit 1.
\* sys.exit raises SystemExit, which "except Exception" does not catch.
Critical(report) == {i \in 1..Len(report.issues) : report.issues[i].severity = "critical"}

\* report.get("percentage", 0) < 70
PercentageBelow(report, threshold) ==
    IF report.has_totals THEN ~AtLeast(report.percentage, threshold) ELSE 0 < threshold

\* ExitCode without the --fail-on-critical test
ExitCode_IgnoreCritical(report, fail_on_critical, output) ==
    IF output = "unwritable" THEN 1
    ELSE IF PercentageBelow(report, 70) THEN 1
    ELSE 0

\* the exit code of main(), in the order of its tests
ExitCode(report, fail_on_critical, output) ==
    IF output = "unwritable" THEN 1
    ELSE IF fail_on_critical /\ Critical(report) # {} THEN 1
    ELSE IF PercentageBelow(report, 70) THEN 1
    ELSE 0

OutputArgs == {"none", "written", "unwritable"}

\* main() after its single call of run_all_checks: the arguments are read
\* here because nothing before this point depends on them
Main ==
    /\ pc = 0
    /\ Len(reports) = 1
    /\ cli.exit_code = NotExited
    /\ \E fail_on_critical \in BOOLEAN, output \in OutputArgs :
          cli' = [fail_on_critical |-> fail_on_critical, output |-> output,
                  exit_code |-> ExitCode(reports[1], fail_on_critical, output)]
    /\ UNCHANGED <<snap, scores, issues, recommendations, summary, pc, total_score,
                   evaluated, failed, printed, reports>>
    /\ UNCHANGED compare_vars
    /\ UNCHANGED link_vars

Next ==
    \/ Start
    \/ FilePermissions
    \/ EnvironmentVariables
    \/ Authentication
    \/ RateLimiting
    \/ InputValidation
    \/ LoggingSecurity
    \/ DependencySecurity
    \/ CiSecurity
    \/ Finish
    \/ Main

Spec == Init /\ [][Next]_vars

TypeOK ==
    /\ pc \in 0..(Len(checks) + 1)
    /\ DOMAIN scores \subseteq {checks[i].key : i \in 1..Len(checks)}
    /\ Len(reports) <= MaxRuns

----------------------------------------------------------------------------
(* Vocabulary of the properties                                             *)

CheckKeys  == {checks[i].key : i \in 1..Len(checks)}
CheckNames == [i \in 1..Len(checks) |-> checks[i].name]

\* the first run of the instance is past check i
FirstRunPast(i) == reports = << >> /\ pc > i

\* p is a readable source file
Readable(p) == snap.files[p].kind = "text"

\* p matches some hardcoded-secret rule
MatchesSecretRule(p) ==
    \E j \in 1..Len(hardcoded_patterns) : FindAll(hardcoded_patterns[j], snap.files[p].lines)

\* the HardcodedSecrets issues in the log that name file p
SecretIssuesAbout(p) ==
    { i \in 1..Len(issues) :
        /\ issues[i].component = "HardcodedSecrets"
        /\ \E j \in 1..Len(hardcoded_patterns) :
              issues[i].message = hardcoded_patterns[j].description \o " found in " \o p }

SecretIssues == { i \in 1..Len(issues) : issues[i].component = "HardcodedSecrets" }

MissingExamples == { p \in ExamplePaths : snap.files[p].kind = "absent" }

\* the messages a SystemError issue for a check can carry
FailureTexts ==
    { PermissionDenied(p) : p \in Paths \cup {"src", "mcp-server/src", ".github/workflows"} }
        \cup { UndecodableText, InvalidJson }

\* the SystemError issues of a log for the check called name
SystemErrorsFor(log, name) ==
    { i \in 1..Len(log) :
        /\ log[i].component = "SystemError"
        /\ log[i].severity = "critical"
        /\ \E t \in FailureTexts : log[i].message = "Check failed: " \o name \o " - " \o t }

----------------------------------------------------------------------------
(* C1 *)

\* C1: the score every check records in results["scores"] lies in 0..10.
\* Stated as the claim states it; check_logging_security subtracts 2 per
\* reported rule and file and never clamps.
C1_ScoresWithinRange ==
    \A k \in DOMAIN scores : 0 <= scores[k] /\ scores[k] <= 10

----------------------------------------------------------------------------
(* C2 *)

\* C2: when check_environment_variables has reported hardcoded secrets, the
\* score it records is its baseline 10 lowered by 3 for every reported match
\* (and by 1 for every missing example file).
C2_SecretMatchDeductsThree ==
    (FirstRunPast(2) /\ "environment_variables" \in DOMAIN scores)
        => scores["environment_variables"]
              = 10 - 3 * Cardinality(SecretIssues) - Cardinality(MissingExamples)

----------------------------------------------------------------------------
(* C3 *)

\* C3: a source file that contains "process.env" never gets a
\* HardcodedSecrets issue, whatever rules it matches, and costs no points:
\* when every file that matches a rule contains the marker, the recorded
\* score is 10 less 1 per missing example file.
C3_SafeMarkerSuppresses ==
    /\ \A p \in SrcPaths :
          (Readable(p) /\ Contains(snap.files[p].lines, "process.env"))
              => SecretIssuesAbout(p) = {}
    /\ ( /\ "environment_variables" \in DOMAIN scores
         /\ \A p \in SrcPaths :
               (Readable(p) /\ MatchesSecretRule(p))
                   => Contains(snap.files[p].lines, "process.env") )
          => scores["environment_variables"] = 10 - Cardinality(MissingExamples)

\* a file matching the hardcoded-token rule and containing the marker has
\* been scanned, and the check has recorded its score
C3_Witness ==
    /\ FirstRunPast(2)
    /\ "environment_variables" \in DOMAIN scores
    /\ \E p \in SrcPaths :
          /\ Readable(p)
          /\ FindAll(hardcoded_patterns[1], snap.files[p].lines)
          /\ Contains(snap.files[p].lines, "process.env")
    /\ \A p \in SrcPaths :
          (Readable(p) /\ MatchesSecretRule(p))
              => Contains(snap.files[p].lines, "process.env")

----------------------------------------------------------------------------
(* C4 *)

\* C4: whatever checks raise, the runner invokes the registered checks one
\* after the other in registration order, none is skipped, and the run ends
\* by returning a report after all eight have been invoked.
C4_FailureNeverAborts ==
    /\ pc \in 1..(Len(checks) + 1) => evaluated = SubSeq(CheckNames, 1, pc - 1)
    /\ (pc = 0 /\ reports # << >>) => evaluated = CheckNames
    /\ failed \subseteq Range(evaluated)

\* a run in which the first check and a later check raised has returned
\* its report
C4_Witness ==
    /\ pc = 0
    /\ Len(reports) = 1
    /\ "File Permissions" \in failed
    /\ "Dependency Security" \in failed
    /\ "CI/CD Security" \notin failed

----------------------------------------------------------------------------
(* C5 *)

\* C5: for every check that raised in the run, the report holds exactly one
\* critical SystemError issue for it and records the check in scores with
\* score 0.
C5_FailedCheckScoresZero ==
    (pc = 0 /\ Len(reports) = 1) =>
        \A i \in 1..Len(checks) :
            checks[i].name \in failed =>
                /\ Cardinality(SystemErrorsFor(reports[1].issues, checks[i].name)) = 1
                /\ checks[i].key \in DOMAIN reports[1].scores
                /\ reports[1].scores[checks[i].key] = 0

----------------------------------------------------------------------------
(* C6 *)

\* C6: every report carries max_score = 10 * 8, also when checks raised.
C6_MaxScoreIsEighty ==
    \A n \in 1..Len(reports) :
        reports[n].has_totals /\ reports[n].max_score = 10 * Len(checks)

----------------------------------------------------------------------------
(* C7 *)

\* C7: every report carries overall_score, and it is the sum of the values
\* of the report's scores.
C7_OverallScoreIsSum ==
    \A n \in 1..Len(reports) :
        reports[n].has_totals /\ reports[n].overall_score = Sum(reports[n].scores)

----------------------------------------------------------------------------
(* C8 *)

\* C8: in every report with recorded scores, overall_status is the band of
\* 100 * overall_score / max_score with inclusive lower bounds 90, 80, 70, 60.
C8_BandOfPercentage ==
    \A n \in 1..Len(reports) :
        LET r == reports[n]
            t == 100 * r.overall_score
            m == r.max_score
        IN (r.scores # NoScores) =>
              /\ r.has_totals
              /\ m > 0
              /\ r.overall_status = "excellent" <=> t >= 90 * m
              /\ r.overall_status = "good"      <=> (t >= 80 * m /\ t < 90 * m)
              /\ r.overall_status = "fair"      <=> (t >= 70 * m /\ t < 80 * m)
              /\ r.overall_status = "poor"      <=> (t >= 60 * m /\ t < 70 * m)
              /\ r.overall_status = "critical"  <=> t < 60 * m

\* a report whose percentage is exactly 70 has been returned
C8_Witness ==
    \E n \in 1..Len(reports) :
        /\ reports[n].has_totals
        /\ 100 * reports[n].overall_score = 70 * reports[n].max_score
        /\ reports[n].overall_status = "fair"

----------------------------------------------------------------------------
(* C9 *)

\* the only read failures of the snapshot are files that cannot be read
OnlyFileReadFailures ==
    /\ snap.locked = "none"
    /\ \A p \in Paths : Junk \notin snap.files[p].lines

\* C9: a file whose read fails contributes nothing: every check completes
\* normally and no SystemError issue is appended because of it, in the
\* presence checks as in the pattern-scanning checks.
C9_ReadFailureSwallowed ==
    OnlyFileReadFailures =>
        /\ failed = {}
        /\ \A i \in 1..Len(issues) : issues[i].component # "SystemError"

----------------------------------------------------------------------------
(* C10 *)

\* C10: a second run on the unchanged snapshot returns the same scores,
\* issues and recommendations as the first, also on the same instance.
C10_SecondRunIdentical ==
    Len(reports) >= 2 =>
        /\ reports[2].scores = reports[1].scores
        /\ reports[2].issues = reports[1].issues
        /\ reports[2].recommendations = reports[1].recommendations

----------------------------------------------------------------------------
(* main(): the exit code                                                    *)

Bands == {"excellent", "good", "fair", "poor", "critical"}

HasCritical(report) == \E i \in 1..Len(report.issues) : report.issues[i].severity = "critical"

\* C11: once main() has exited, its exit code is 0 exactly when main did not
\* raise, the returned report has a percentage of at least 70 and, if
\* --fail-on-critical was given, no issue of the report is critical; in every
\* other case (no score recorded, main raised) it is 1.
C11_ExitCodeContract ==
    cli.exit_code # NotExited =>
        /\ cli.exit_code \in {0, 1}
        /\ cli.exit_code = 0 <=>
              /\ cli.output # "unwritable"
              /\ reports[1].has_totals
              /\ reports[1].percentage.num >= 70 * reports[1].percentage.den
              /\ cli.fail_on_critical => ~HasCritical(reports[1])

\* main() exited 0 under --fail-on-critical with a report of exactly 70 percent
C11_Witness ==
    /\ cli.exit_code = 0
    /\ cli.fail_on_critical
    /\ reports[1].has_totals
    /\ reports[1].percentage.num = 70 * reports[1].percentage.den

\* main() exited 1 only because of a critical issue: the percentage passes
C11_WitnessCritical ==
    /\ cli.exit_code = 1
    /\ cli.fail_on_critical
    /\ cli.output # "unwritable"
    /\ reports[1].has_totals
    /\ reports[1].percentage.num >= 70 * reports[1].percentage.den
    /\ HasCritical(reports[1])

----------------------------------------------------------------------------
(* The keys of the report                                                   *)

\* C12: every report returned by run_all_checks holds overall_score,
\* max_score and percentage besides the five keys of the constructor, and
\* its overall_status is one of the five bands.
C12_ReportHasAllKeys ==
    \A i \in 1..Len(reports) :
        /\ reports[i].has_totals
        /\ reports[i].overall_status \in Bands

\* a report returned after every check raised: no totals, status "pending"
C12_AllFailedReport ==
    /\ Len(reports) >= 1
    /\ reports[1].scores = NoScores
    /\ ~reports[1].has_totals
    /\ reports[1].overall_status = "pending"

----------------------------------------------------------------------------
(* scorecard-compare.py: the checks of two scorecards                       *)

\* bound: the number of checks of the two scorecards together
MaxChecks == 4

\* check names: two of the security-critical subset, one outside it
CheckNameSet == {"Vulnerabilities", "Code-Review", "License"}

\* check scores, on both sides of the threshold 7
ScoreSet == {6, 7, 8}

\* a check of a scorecard: {"name": ..., "score": ...}
CheckEntries == [name : CheckNameSet, score : ScoreSet]

\* the lists of at most n checks
CheckLists(n) == UNION {[1..k -> CheckEntries] : k \in 0..n}

\* the position of the key in an insertion-ordered dict, 0 if absent
RECURSIVE IndexOf(_, _, _)
IndexOf(d, name, i) ==
    IF i > Len(d) THEN 0
    ELSE IF d[i].name = name THEN i
    ELSE IndexOf(d, name, i + 1)

\* {check['name']: check for check in checks}: a key keeps the position of
\* its first occurrence and the value of its last
RECURSIVE DictOf(_, _, _)
DictOf(checks_list, i, d) ==
    IF i > Len(checks_list) THEN d
    ELSE LET at == IndexOf(d, checks_list[i].name, 1) IN
         DictOf(checks_list, i + 1,
                IF at = 0 THEN Append(d, checks_list[i])
                ELSE [d EXCEPT ![at] = checks_list[i]])

\* check.get('score', 0)
ScoreIn(check) == IF "score" \in DOMAIN check THEN check.score ELSE 0

\* dict.get(name, {}).get('score', 0)
ScoreOf(d, name) ==
    IF IndexOf(d, name, 1) = 0 THEN 0 ELSE ScoreIn(d[IndexOf(d, name, 1)])

\* calculate_score_diff that reports a difference of zero as improved
calculate_score_diff_ZeroImproved(current, baseline) ==
    [diff |-> current - baseline,
     status |-> IF current - baseline >= 0 THEN "improved" ELSE "declined"]

\* diff = current - baseline and its sign
calculate_score_diff(current, baseline) ==
    [diff |-> current - baseline,
     status |-> IF current - baseline > 0 THEN "improved"
                ELSE IF current - baseline < 0 THEN "declined"
                ELSE "unchanged"]

\* the entry of a check of the current scorecard (lines 53-69)
CurrentEntry(current_check, baseline_dict) ==
    [check |-> current_check.name,
     current_score |-> ScoreIn(current_check),
     baseline_score |-> ScoreOf(baseline_dict, current_check.name),
     diff |-> calculate_score_diff(ScoreIn(current_check),
                                   ScoreOf(baseline_dict, current_check.name)).diff,
     status |-> calculate_score_diff(ScoreIn(current_check),
                                     ScoreOf(baseline_dict, current_check.name)).status,
     current_reason |-> ""]

\* MissingEntry with a diff of 0
MissingEntry_ZeroDiff(baseline_check) ==
    [check |-> baseline_check.name,
     current_score |-> 0,
     baseline_score |-> ScoreIn(baseline_check),
     diff |-> 0,
     status |-> "missing",
     current_reason |-> "Check not found in current results"]

\* the entry of a check found in the baseline only (lines 72-82)
MissingEntry(baseline_check) ==
    [check |-> baseline_check.name,
     current_score |-> 0,
     baseline_score |-> ScoreIn(baseline_check),
     diff |-> 0 - ScoreIn(baseline_check),
     status |-> "missing",
     current_reason |-> "Check not found in current results"]

\* the analysis dict as the sequence of its items, in insertion order
analyze_individual_checks(current_list, baseline_list) ==
    LET baseline_dict == DictOf(baseline_list, 1, <<>>)
        current_dict == DictOf(current_list, 1, <<>>)
        NotInCurrent(c) == IndexOf(current_dict, c.name, 1) = 0
        baseline_only == SelectSeq(baseline_dict, NotInCurrent)
    IN  [i \in 1..Len(current_dict) |-> CurrentEntry(current_dict[i], baseline_dict)] \o
        [i \in 1..Len(baseline_only) |-> MissingEntry(baseline_only[i])]

security_critical_checks ==
    {"Vulnerabilities", "Code-Review", "Branch-Protection",
     "Token-Permissions", "Dangerous-Workflow", "Security-Policy"}

\* an action of the list: the seven keys of lines 103-111
Action(data, priority, action) ==
    [check |-> data.check, priority |-> priority, action |-> action,
     current_score |-> data.current_score, baseline_score |-> data.baseline_score,
     diff |-> data.diff, reason |-> data.current_reason]

\* DeclinePriority that ignores the security-critical subset
DeclinePriority_AlwaysMedium(check_name) == "medium"

\* 'high' if check_name in security_critical_checks else 'medium'
DeclinePriority(check_name) ==
    IF check_name \in security_critical_checks THEN "high" ELSE "medium"

\* NeedsImprovement without the membership test
NeedsImprovement_AnyCheck(data) == data.current_score < 7

\* the second elif: data['current_score'] < 7 and check_name in security_critical_checks
NeedsImprovement(data) ==
    data.current_score < 7 /\ data.check \in security_critical_checks

\* the if / elif chain of the loop: the actions one item of the analysis adds
ActionsOf(data) ==
    IF data.status = "declined"
    THEN << Action(data, DeclinePriority(data.check), "investigate_decline") >>
    ELSE IF data.status = "missing"
    THEN << Action(data, "high", "restore_check") >>
    ELSE IF NeedsImprovement(data)
    THEN << Action(data, "medium", "improve_security") >>
    ELSE << >>

RECURSIVE CollectActions(_, _)
CollectActions(items, i) ==
    IF i > Len(items) THEN << >>
    ELSE ActionsOf(items[i]) \o CollectActions(items, i + 1)

priority_order == [high |-> 0, medium |-> 1, low |-> 2]

\* the comparison of two sort keys (priority_order[x['priority']], x['diff'])
KeyLess(a, b) ==
    \/ priority_order[a.priority] < priority_order[b.priority]
    \/ /\ priority_order[a.priority] = priority_order[b.priority]
       /\ a.diff < b.diff

\* InsertSorted that puts an action before the actions of equal key
RECURSIVE InsertSorted_BeforeEqual(_, _)
InsertSorted_BeforeEqual(sorted, a) ==
    IF sorted = << >> THEN << a >>
    ELSE IF KeyLess(Head(sorted), a)
    THEN << Head(sorted) >> \o InsertSorted_BeforeEqual(Tail(sorted), a)
    ELSE << a >> \o sorted

\* list.sort is stable: an action goes after every action whose key is not greater
RECURSIVE InsertSorted(_, _)
InsertSorted(sorted, a) ==
    IF sorted = << >> THEN << a >>
    ELSE IF KeyLess(a, Head(sorted)) THEN << a >> \o sorted
    ELSE << Head(sorted) >> \o InsertSorted(Tail(sorted), a)

RECURSIVE SortActions(_, _, _)
SortActions(unsorted, i, sorted) ==
    IF i > Len(unsorted) THEN sorted
    ELSE SortActions(unsorted, i + 1, InsertSorted(sorted, unsorted[i]))

identify_priority_actions(items) ==
    SortActions(CollectActions(items, 1), 1, << >>)

\* security-config-check.py is not running
CheckerIdle ==
    /\ snap = Bare
    /\ scores = NoScores
    /\ issues = <<>>
    /\ recommendations = <<>>
    /\ summary = [timestamp |-> 0, overall_status |-> "pending", has_totals |-> FALSE,
                  overall_score |-> 0, max_score |-> 0, percentage |-> Percentage(0, 1)]
    /\ pc = 0
    /\ total_score = 0
    /\ evaluated = <<>>
    /\ failed = {}
    /\ printed = NothingPrinted
    /\ reports = <<>>
    /\ cli = NotStarted

\* main(), lines 298-299: the "checks" lists of the two loaded scorecards
InitCompare ==
    /\ CheckerIdle
    /\ LinksIdle
    /\ \E n \in 0..MaxChecks :
          /\ current_checks \in CheckLists(n)
          /\ baseline_checks \in CheckLists(MaxChecks - n)
    /\ analysis = <<>>
    /\ actions = <<>>
    /\ cpc = "loaded"
    /\ scorecards = NoFiles
    /\ result = NoOutput

\* except Exception in main(), lines 341-343: the diagnostic and exit code 1
Abort(o, err) == [o EXCEPT !.stderr = "ERROR: " \o err, !.exit_code = 1]

\* check['name'] of the two dict comprehensions raises KeyError('name')
Nameless(checks_list) == \E i \in 1..Len(checks_list) : "name" \notin DOMAIN checks_list[i]

\* main(), line 301
Analyze ==
    /\ cpc = "loaded"
    /\ IF Nameless(baseline_checks) \/ Nameless(current_checks)
       THEN /\ result' = Abort(result, "'name'")
            /\ cpc' = "exited"
            /\ UNCHANGED analysis
       ELSE /\ analysis' = analyze_individual_checks(current_checks, baseline_checks)
            /\ cpc' = "analyzed"
            /\ UNCHANGED result
    /\ UNCHANGED <<current_checks, baseline_checks, actions, scorecards>>
    /\ UNCHANGED checker_vars
    /\ UNCHANGED link_vars

\* main(), line 302; ranking the same analysis again is a call of the same function
Identify ==
    /\ cpc \in {"analyzed", "identified"}
    /\ actions' = identify_priority_actions(analysis)
    /\ cpc' = "identified"
    /\ UNCHANGED <<current_checks, baseline_checks, analysis, scorecards, result>>
    /\ UNCHANGED checker_vars
    /\ UNCHANGED link_vars

NextCompare ==
    \/ Analyze
    \/ Identify

SpecCompare == InitCompare /\ [][NextCompare]_vars

TypeOKCompare ==
    /\ cpc \in {"start", "loaded", "analyzed", "identified", "exited"}
    /\ Len(current_checks) + Len(baseline_checks) <= MaxChecks
    /\ Len(actions) <= Len(analysis)

----------------------------------------------------------------------------
(* Properties of the priority actions                                       *)

NamesOf(checks_list) == {checks_list[i].name : i \in 1..Len(checks_list)}

\* the positions of the actions about a check
ActionsAbout(name) == {i \in 1..Len(actions) : actions[i].check = name}

\* the first position of a name in a list of checks, 0 if absent
FirstNamed(checks_list, name) ==
    IF \E i \in 1..Len(checks_list) : checks_list[i].name = name
    THEN CHOOSE i \in 1..Len(checks_list) :
            /\ checks_list[i].name = name
            /\ \A j \in 1..(i - 1) : checks_list[j].name # name
    ELSE 0

\* the position of a check in the items of the analysis, 0 if absent
ItemOf(items, name) ==
    IF \E i \in 1..Len(items) : items[i].check = name
    THEN CHOOSE i \in 1..Len(items) : items[i].check = name
    ELSE 0

Identified == cpc = "identified"

\* C13: every check of the analysis whose status is declined (its current
\* score is below its baseline score) has exactly one action; that action is
\* investigate_decline, with priority high if the check is security-critical
\* and medium otherwise.
C13_DeclinedInvestigated ==
    Identified =>
        \A k \in 1..Len(analysis) :
            analysis[k].status = "declined" =>
                /\ analysis[k].current_score < analysis[k].baseline_score
                /\ Cardinality(ActionsAbout(analysis[k].check)) = 1
                /\ \A i \in ActionsAbout(analysis[k].check) :
                      /\ actions[i].action = "investigate_decline"
                      /\ actions[i].priority =
                            IF analysis[k].check \in security_critical_checks
                            THEN "high" ELSE "medium"

\* a security-critical check and a check outside the subset both declined
C13_Witness ==
    /\ Identified
    /\ \E i, j \in 1..Len(actions) :
          /\ actions[i].action = "investigate_decline"
          /\ actions[i].check = "Vulnerabilities"
          /\ actions[i].priority = "high"
          /\ actions[j].action = "investigate_decline"
          /\ actions[j].check = "License"
          /\ actions[j].priority = "medium"

\* C14: every check named in the baseline and not in the current results has
\* exactly one action: restore_check, priority high, current_score 0 and diff
\* equal to minus its baseline score, security-critical or not.
C14_MissingRestored ==
    Identified =>
        \A name \in NamesOf(baseline_checks) \ NamesOf(current_checks) :
            /\ Cardinality(ActionsAbout(name)) = 1
            /\ \A i \in ActionsAbout(name) :
                  /\ actions[i].action = "restore_check"
                  /\ actions[i].priority = "high"
                  /\ actions[i].current_score = 0
                  /\ \E b \in 1..Len(baseline_checks) :
                        /\ baseline_checks[b].name = name
                        /\ baseline_checks[b].score = actions[i].baseline_score
                  /\ actions[i].diff = 0 - actions[i].baseline_score

\* a check outside the subset, baseline score 8, is missing: high, diff -8
C14_Witness ==
    /\ Identified
    /\ "License" \notin NamesOf(current_checks)
    /\ \E i \in 1..Len(actions) :
          /\ actions[i].check = "License"
          /\ actions[i].action = "restore_check"
          /\ actions[i].priority = "high"
          /\ actions[i].baseline_score = 8
          /\ actions[i].diff = -8

\* C15: an item of the analysis that is neither declined nor missing has
\* exactly one action, improve_security with priority medium, if its check is
\* security-critical and its current score is below 7, and no action at all
\* if its check is outside the subset.
C15_LowCriticalImproved ==
    Identified =>
        \A k \in 1..Len(analysis) :
            analysis[k].status \notin {"declined", "missing"} =>
                /\ (analysis[k].check \in security_critical_checks
                    /\ analysis[k].current_score < 7) =>
                      /\ Cardinality(ActionsAbout(analysis[k].check)) = 1
                      /\ \A i \in ActionsAbout(analysis[k].check) :
                            /\ actions[i].action = "improve_security"
                            /\ actions[i].priority = "medium"
                /\ analysis[k].check \notin security_critical_checks =>
                      ActionsAbout(analysis[k].check) = {}

\* a critical check at 6 that did not decline has its action, and a check
\* outside the subset at 6 that did not decline has none
C15_Witness ==
    /\ Identified
    /\ \E i \in 1..Len(actions) :
          /\ actions[i].action = "improve_security"
          /\ actions[i].current_score = 6
    /\ \E k \in 1..Len(analysis) :
          /\ analysis[k].check = "License"
          /\ analysis[k].current_score = 6
          /\ analysis[k].status \in {"improved", "unchanged"}
          /\ ActionsAbout("License") = {}

Rank(priority) == IF priority = "high" THEN 0 ELSE IF priority = "medium" THEN 1 ELSE 2

\* the analysis lists the current checks in input order, then the baseline-only ones
AnalysisInInputOrder ==
    \A k, l \in 1..Len(analysis) :
        k < l =>
            LET a == analysis[k].check
                b == analysis[l].check
                ca == FirstNamed(current_checks, a)
                cb == FirstNamed(current_checks, b)
                ba == FirstNamed(baseline_checks, a)
                bb == FirstNamed(baseline_checks, b)
            IN  /\ a # b
                /\ \/ ca # 0 /\ cb # 0 /\ ca < cb
                   \/ ca # 0 /\ cb = 0 /\ bb # 0
                   \/ ca = 0 /\ cb = 0 /\ ba # 0 /\ bb # 0 /\ ba < bb

\* the actions are in (rank, diff) order, ties in the order of the analysis
ActionsRanked ==
    \A i, j \in 1..Len(actions) :
        i < j =>
            \/ Rank(actions[i].priority) < Rank(actions[j].priority)
            \/ /\ Rank(actions[i].priority) = Rank(actions[j].priority)
               /\ actions[i].diff < actions[j].diff
            \/ /\ Rank(actions[i].priority) = Rank(actions[j].priority)
               /\ actions[i].diff = actions[j].diff
               /\ ItemOf(analysis, actions[i].check)
                     < ItemOf(analysis, actions[j].check)

\* C16: the returned actions are ordered by priority rank (high first), then
\* by diff ascending, and actions of equal priority and diff keep the order
\* of their checks in the analysis (current checks in input order, then the
\* baseline-only checks); ranking the same analysis again returns the same list.
C16_StableRanking ==
    /\ [](Identified => AnalysisInInputOrder /\ ActionsRanked)
    /\ [][(Identified /\ cpc' = "identified") => actions' = actions]_vars

\* two actions of equal priority and equal diff, after an action that sorts first
C16_Witness ==
    /\ Identified
    /\ Len(actions) >= 3
    /\ \E i, j \in 1..Len(actions) :
          /\ i < j
          /\ actions[i].priority = actions[j].priority
          /\ actions[i].diff = actions[j].diff
          /\ actions[i].check = "Vulnerabilities"
          /\ actions[j].check = "Code-Review"
    /\ \E i, j \in 1..Len(actions) :
          /\ i < j
          /\ ItemOf(analysis, actions[i].check)
                > ItemOf(analysis, actions[j].check)

----------------------------------------------------------------------------
(* Presence checks: every sub-condition adds its weight or logs its gap     *)

\* the entries the components log, issues and recommendations together
LoggedBy(components) ==
    Cardinality({i \in 1..Len(issues) : issues[i].component \in components})
    + Cardinality({i \in 1..Len(recommendations) :
                      recommendations[i].component \in components})

Gap(missing) == IF missing THEN 1 ELSE 0

\* the sub-conditions of the dependency check that the snapshot does not meet:
\* the two lock files, an audit script and a security dependency in package.json
DependencyGaps ==
    Gap(snap.files["Cargo.lock"].kind = "absent")
    + Gap(snap.files["mcp-server/package-lock.json"].kind = "absent")
    + Gap(~(snap.files[PackageJson].kind = "text"
            /\ HasAuditScript(snap.files[PackageJson].lines)))
    + Gap(~(snap.files[PackageJson].kind = "text"
            /\ HasSecurityDep(snap.files[PackageJson].lines)))

\* the sub-conditions of the CI check that the snapshot does not meet: each
\* named workflow, and a permissions block in each workflow file
CiGaps ==
    Cardinality({p \in WorkflowPaths : snap.files[p].kind = "absent"})
    + Cardinality({p \in WorkflowPaths :
                      /\ snap.files[p].kind = "text"
                      /\ ~Contains(snap.files[p].lines, "permissions:")})

\* C17: in the dependency check and the CI check every sub-condition either
\* adds its weight or appends exactly one Issue or Recommendation: when the
\* check completed, the entries it logged are as many as the sub-conditions
\* the snapshot does not meet.
C17_EveryGapLogged ==
    /\ (FirstRunPast(7) /\ "dependency_security" \in DOMAIN scores) =>
          LoggedBy({"BridgeDeps", "MCPDeps"}) = DependencyGaps
    /\ (FirstRunPast(8) /\ "ci_security" \in DOMAIN scores /\ snap.wfdir) =>
          LoggedBy({"CI/CD"}) = CiGaps

\* the dependency check completed without mcp-server/package.json: two
\* sub-conditions added nothing and logged nothing
C17_SilentPackageJson ==
    /\ FirstRunPast(7)
    /\ "dependency_security" \in DOMAIN scores
    /\ snap.files[PackageJson].kind = "absent"
    /\ snap.files["Cargo.lock"].kind # "absent"
    /\ snap.files["mcp-server/package-lock.json"].kind # "absent"
    /\ scores["dependency_security"] = 4
    /\ LoggedBy({"BridgeDeps", "MCPDeps"}) = 0

----------------------------------------------------------------------------
(* Authentication: one warning per component that is not configured         *)

BridgeAuthFiles == {"src/telegram/handlers.rs", "src/utils/security.rs"}

McpAuthFiles == {"mcp-server/src/security.ts", "mcp-server/src/index.ts"}

\* some candidate file that can be read holds a marker of the component
Configured(candidates, kind) ==
    \E p \in candidates :
        snap.files[p].kind = "text" /\ HasMarker(kind, snap.files[p].lines)

IssuesOf(component) == {i \in 1..Len(issues) : issues[i].component = component}

\* the component added 5 and logged nothing, or added nothing and logged one
\* warning whose recommendation names the variable
ComponentSettled(candidates, kind, component, variable) ==
    IF Configured(candidates, kind)
    THEN IssuesOf(component) = {}
    ELSE /\ Cardinality(IssuesOf(component)) = 1
         /\ \A i \in IssuesOf(component) :
               /\ issues[i].severity = "warning"
               /\ issues[i].recommendation \in
                     {"Ensure " \o variable \o " is set",
                      "Ensure " \o variable \o " is configured"}

\* C18: after the authentication check each component (Bridge, MCP Server)
\* either is configured, contributes 5 and logs no issue, or is not,
\* contributes 0 and logs exactly one warning naming its variable; the
\* recorded authentication score is 5 times the number of configured components.
C18_AuthenticationScore ==
    (FirstRunPast(3) /\ snap.locked = "none") =>
        /\ "authentication" \in DOMAIN scores
        /\ scores["authentication"] =
              5 * (Gap(Configured(BridgeAuthFiles, "bridge_auth"))
                   + Gap(Configured(McpAuthFiles, "mcp_auth")))
        /\ ComponentSettled(BridgeAuthFiles, "bridge_auth", "BridgeAuth",
                            "TELEGRAM_ALLOWED_USERS")
        /\ ComponentSettled(McpAuthFiles, "mcp_auth", "MCPAuth", "MCP_API_KEYS")

\* an unreadable candidate file made the authentication check raise: no
\* score is recorded and no warning is logged
C18_UnreadableCandidate ==
    /\ FirstRunPast(3)
    /\ snap.locked = "none"
    /\ "Authentication" \in failed
    /\ "authentication" \notin DOMAIN scores
    /\ IssuesOf("BridgeAuth") = {}
    /\ IssuesOf("MCPAuth") = {}
    /\ ~Configured(BridgeAuthFiles, "bridge_auth")

----------------------------------------------------------------------------
(* Logging hygiene and the safe marker                                      *)

\* the LoggingSecurity issues in the log that name file p
LoggingIssuesAbout(p) ==
    { i \in 1..Len(issues) :
        /\ issues[i].component = "LoggingSecurity"
        /\ \E j \in 1..Len(sensitive_log_patterns) :
              issues[i].message = sensitive_log_patterns[j].description \o " in " \o p }

\* the (rule, file) pairs whose regex is found in a readable file without the marker
UnsafeLogMatches ==
    { <<j, p>> \in (1..Len(sensitive_log_patterns)) \X SrcPaths :
        /\ Readable(p)
        /\ Search(sensitive_log_patterns[j], snap.files[p].lines)
        /\ ~Contains(snap.files[p].lines, "process.env") }

\* C19: in the logging check a file that contains the safe marker
\* "process.env" gets no LoggingSecurity issue, whatever sensitive-log
\* patterns it matches, and costs no points: the recorded score is 10 less 2
\* for every rule found in a file without the marker.
C19_MarkerSuppressesLogRule ==
    FirstRunPast(6) =>
        /\ \A p \in SrcPaths :
              (Readable(p) /\ Contains(snap.files[p].lines, "process.env"))
                  => LoggingIssuesAbout(p) = {}
        /\ "logging_security" \in DOMAIN scores
              => scores["logging_security"] = 10 - 2 * Cardinality(UnsafeLogMatches)

\* a file with the marker and a logged password was reported and cost 2 points
C19_MarkerIgnored ==
    /\ FirstRunPast(6)
    /\ "logging_security" \in DOMAIN scores
    /\ scores["logging_security"] < 10
    /\ UnsafeLogMatches = {}
    /\ \E p \in SrcPaths :
          /\ Readable(p)
          /\ Contains(snap.files[p].lines, "process.env")
          /\ LoggingIssuesAbout(p) # {}

----------------------------------------------------------------------------
(* Recommendations and deductions                                           *)

\* C20: a step that appends a Recommendation never lowers the running score
\* of its check.  In the environment check the only other steps that may
\* lower the score are the reported secret matches, 3 points each, so the
\* recorded score is at least 10 less 3 per HardcodedSecrets issue.
C20_RecommendationDeductsNothing ==
    (FirstRunPast(2) /\ "environment_variables" \in DOMAIN scores)
        => scores["environment_variables"] >= 10 - 3 * Cardinality(SecretIssues)

\* the environment check recorded 9 after logging one recommendation and no issue
C20_DeductedWithRecommendation ==
    /\ FirstRunPast(2)
    /\ pc = 3
    /\ "environment_variables" \in DOMAIN scores
    /\ scores["environment_variables"] = 9
    /\ Len(recommendations) = 1
    /\ SecretIssues = {}

----------------------------------------------------------------------------
(* The logs are append-only                                                 *)

IsPrefix(old, new) == Len(old) <= Len(new) /\ SubSeq(new, 1, Len(old)) = old

\* C22: every operation leaves the issue log and the recommendation log it
\* found as prefixes of the logs it leaves: no entry is removed, reordered
\* or modified.
C22_LogsAppendOnly ==
    [][IsPrefix(issues, issues') /\ IsPrefix(recommendations, recommendations')]_vars

\* a second run of the same instance has appended to the logs of the first
C22_Witness ==
    /\ Len(reports) = 1
    /\ pc > 1
    /\ Len(reports[1].issues) > 0
    /\ Len(reports[1].recommendations) > 0
    /\ Len(issues) > Len(reports[1].issues)
    /\ Len(recommendations) > Len(reports[1].recommendations)
    /\ IsPrefix(reports[1].issues, issues)
    /\ IsPrefix(reports[1].recommendations, recommendations)

----------------------------------------------------------------------------
(* The printed summary and the returned report                              *)

LastReport == reports[Len(reports)]

\* C23: the total, maximum, percentage and band that run_all_checks printed
\* for a run are the overall_score, max_score, percentage and overall_status
\* of the report it returned for that run.
C23_PrintedAgreesWithReport ==
    (printed.done /\ Len(reports) >= 1) =>
        /\ LastReport.has_totals
        /\ LastReport.overall_score = printed.total
        /\ LastReport.max_score = printed.max
        /\ LastReport.percentage.num * printed.percentage.den
              = printed.percentage.num * LastReport.percentage.den
        /\ LastReport.overall_status = printed.band

\* one check raised: the run printed a maximum of 80 and returned one of 70
C23_MaximaDisagree ==
    /\ printed.done
    /\ Len(reports) = 1
    /\ Cardinality(failed) = 1
    /\ printed.max = 80
    /\ reports[1].has_totals
    /\ reports[1].max_score = 70
    /\ reports[1].overall_score = printed.total

----------------------------------------------------------------------------
(* The entries of the analysis                                              *)

Analyzed == cpc \in {"analyzed", "identified"}

\* the score of the last check of that name in the list, 0 if there is none
LastScore(checks_list, name) ==
    IF \E i \in 1..Len(checks_list) : checks_list[i].name = name
    THEN checks_list[CHOOSE i \in 1..Len(checks_list) :
                        /\ checks_list[i].name = name
                        /\ \A j \in (i + 1)..Len(checks_list) : checks_list[j].name # name].score
    ELSE 0

\* C24: the analysis has exactly one entry for every check name of the two
\* lists together and none for any other name; in every entry diff is
\* current_score - baseline_score; the entry of a baseline-only name has
\* status missing and current_score 0, and every other entry has the scores
\* of its checks (baseline 0 for a new check) and status improved, declined
\* or unchanged as diff is positive, negative or zero.
C24_OneEntryPerCheck ==
    Analyzed =>
        /\ \A name \in NamesOf(current_checks) \cup NamesOf(baseline_checks) :
              Cardinality({k \in 1..Len(analysis) : analysis[k].check = name}) = 1
        /\ \A k \in 1..Len(analysis) :
              /\ analysis[k].check \in NamesOf(current_checks) \cup NamesOf(baseline_checks)
              /\ analysis[k].diff = analysis[k].current_score - analysis[k].baseline_score
              /\ analysis[k].baseline_score = LastScore(baseline_checks, analysis[k].check)
              /\ analysis[k].status = "missing"
                    <=> analysis[k].check \notin NamesOf(current_checks)
              /\ IF analysis[k].check \notin NamesOf(current_checks)
                 THEN analysis[k].current_score = 0
                 ELSE /\ analysis[k].current_score
                            = LastScore(current_checks, analysis[k].check)
                      /\ analysis[k].status =
                            IF analysis[k].diff > 0 THEN "improved"
                            ELSE IF analysis[k].diff < 0 THEN "declined"
                            ELSE "unchanged"

\* an analysis with a new check, an unchanged check and a baseline-only check
C24_Witness ==
    /\ Analyzed
    /\ Len(analysis) = 3
    /\ \E k \in 1..Len(analysis) :
          /\ analysis[k].status = "improved"
          /\ analysis[k].baseline_score = 0
          /\ analysis[k].check \notin NamesOf(baseline_checks)
    /\ \E k \in 1..Len(analysis) : analysis[k].status = "unchanged"
    /\ \E k \in 1..Len(analysis) : analysis[k].status = "missing"

----------------------------------------------------------------------------
(* scorecard-compare.py: main()                                             *)

\* bound: the number of check records in a scorecard file
MaxFileChecks == 1

\* the check records of a file: well formed, without a score, without a name
FileEntries ==
    [name : {"Vulnerabilities", "License"}, score : {6, 8}]
        \cup [name : {"Vulnerabilities", "License"}]
        \cup [score : {6}]

FileLists(n) == UNION {[1..k -> FileEntries] : k \in 0..n}

\* the overall "score" of a scorecard
OverallScores == {5, 7}

ScorecardFiles ==
    {File("missing", 0, "absent", <<>>), File("invalid", 0, "absent", <<>>),
     File("array", 0, "absent", <<>>)}
        \cup {File("object", s, t, <<>>) : s \in OverallScores, t \in {"absent", "object"}}
        \cup {File("object", s, "list", l) : s \in OverallScores, l \in FileLists(MaxFileChecks)}

\* load_scorecard_data: the parsed document, or the exception it raises
load_scorecard_data(filepath, file) ==
    IF file.kind = "missing"
    THEN [raised |-> TRUE, err |-> "Scorecard file not found: " \o filepath]
    ELSE IF file.kind = "invalid"
    THEN [raised |-> TRUE,
          err |-> "Invalid JSON in " \o filepath \o ": " \o InvalidJson]
    ELSE [raised |-> FALSE, err |-> ""]

\* data.get('checks', []): a document that is not an object has no get
GetChecks(file) ==
    IF file.kind = "array"
    THEN [raised |-> TRUE, err |-> "'list' object has no attribute 'get'", val |-> <<>>]
    ELSE [raised |-> FALSE, err |-> "",
          val |-> IF file.checks_type = "list" THEN file.checks ELSE <<>>]

\* the first exception of lines 294-299, if any
LoadFailure ==
    LET c == load_scorecard_data("current.json", scorecards.current)
        b == load_scorecard_data("baseline.json", scorecards.baseline)
    IN  IF c.raised THEN c
        ELSE IF b.raised THEN b
        ELSE IF GetChecks(scorecards.current).raised
        THEN [raised |-> TRUE, err |-> GetChecks(scorecards.current).err]
        ELSE IF GetChecks(scorecards.baseline).raised
        THEN [raised |-> TRUE, err |-> GetChecks(scorecards.baseline).err]
        ELSE [raised |-> FALSE, err |-> ""]

\* main(), lines 294-299
LoadScorecards ==
    /\ cpc = "start"
    /\ IF LoadFailure.raised
       THEN /\ result' = Abort(result, LoadFailure.err)
            /\ cpc' = "exited"
            /\ UNCHANGED <<current_checks, baseline_checks>>
       ELSE /\ current_checks' = GetChecks(scorecards.current).val
            /\ baseline_checks' = GetChecks(scorecards.baseline).val
            /\ cpc' = "loaded"
            /\ UNCHANGED result
    /\ UNCHANGED <<analysis, actions, scorecards>>
    /\ UNCHANGED checker_vars
    /\ UNCHANGED link_vars

\* f"{score:.1f}" of a whole number
ScoreText(score) == ToString(score) \o ".0"

\* lines 305-318: where the markdown report goes
MarkdownOutput(output_format, output_file) ==
    IF output_format = "markdown"
    THEN IF output_file THEN "written to the output file" ELSE "printed"
    ELSE IF output_format = "both"
    THEN IF output_file THEN "written to the output file"
         ELSE "written to scorecard-comparison.md"
    ELSE "none"

\* line 323: open(None, 'w') raises TypeError when --output-format json has no --output-file
JsonFailure(output_format, output_file) == output_format = "json" /\ ~output_file

\* lines 320-330: where the JSON summary goes
JsonOutput(output_format, output_file) ==
    IF output_format = "json"
    THEN IF output_file THEN "written to the output file" ELSE "none"
    ELSE IF output_format = "both" THEN "written to scorecard-comparison.json"
    ELSE "none"

\* lines 333-339
Declined == scorecards.current.score < scorecards.baseline.score

\* main(), lines 305-343; the arguments are read here because nothing
\* before this point depends on them
Output ==
    /\ cpc = "identified"
    /\ \E output_format \in {"markdown", "json", "both"}, output_file \in BOOLEAN,
          exit_on_decline \in BOOLEAN :
          LET written == [result EXCEPT !.output_format = output_format,
                                        !.output_file = output_file,
                                        !.exit_on_decline = exit_on_decline,
                                        !.markdown = MarkdownOutput(output_format, output_file),
                                        !.json = JsonOutput(output_format, output_file),
                                        !.json_printed = (output_format = "json" /\ output_file)]
          IN  result' =
                IF JsonFailure(output_format, output_file)
                THEN Abort(written, "expected str, bytes or os.PathLike object, not NoneType")
                ELSE IF exit_on_decline /\ Declined
                THEN [written EXCEPT
                        !.stderr = "ERROR: Score declined from "
                                      \o ScoreText(scorecards.baseline.score) \o " to "
                                      \o ScoreText(scorecards.current.score),
                        !.exit_code = 1]
                ELSE [written EXCEPT !.exit_code = 0]
    /\ cpc' = "exited"
    /\ UNCHANGED <<current_checks, baseline_checks, analysis, actions, scorecards>>
    /\ UNCHANGED checker_vars
    /\ UNCHANGED link_vars

\* main() is called with two file names
InitMain ==
    /\ CheckerIdle
    /\ LinksIdle
    /\ scorecards \in [current : ScorecardFiles, baseline : ScorecardFiles]
    /\ current_checks = <<>>
    /\ baseline_checks = <<>>
    /\ analysis = <<>>
    /\ actions = <<>>
    /\ cpc = "start"
    /\ result = NoOutput

NextMain ==
    \/ LoadScorecards
    \/ Analyze
    \/ Identify
    \/ Output

SpecMain == InitMain /\ [][NextMain]_vars

----------------------------------------------------------------------------
(* Malformed input of the comparison                                        *)

\* a check record needs a name and a score
MalformedCheck(check) == "name" \notin DOMAIN check \/ "score" \notin DOMAIN check

\* the file is missing, is not JSON, is not a JSON object, or its "checks"
\* are not a list of well-formed check records
MalformedFile(file) ==
    \/ file.kind \in {"missing", "invalid", "array"}
    \/ file.checks_type = "object"
    \/ \E i \in 1..Len(file.checks) : MalformedCheck(file.checks[i])

NothingReported ==
    /\ result.markdown = "none"
    /\ result.json = "none"
    /\ ~result.json_printed

\* C21: when the current or the baseline input is missing, is not valid
\* JSON, or holds malformed checks, main() exits with code 1 and a
\* diagnostic on stderr, and neither report is written or printed.
C21_MalformedInputAborts ==
    (cpc = "exited"
     /\ (MalformedFile(scorecards.current) \/ MalformedFile(scorecards.baseline)))
        => /\ result.exit_code = 1
           /\ result.stderr # ""
           /\ NothingReported

\* a current scorecard whose only check record has no score was compared
\* like any other: exit code 0, the markdown report printed
C21_ScorelessAccepted ==
    /\ cpc = "exited"
    /\ scorecards.current.checks_type = "list"
    /\ Len(scorecards.current.checks) = 1
    /\ "score" \notin DOMAIN scorecards.current.checks[1]
    /\ ~MalformedFile(scorecards.baseline)
    /\ result.exit_code = 0
    /\ result.stderr = ""
    /\ result.markdown = "printed"

\* the inputs the claim names do abort: a missing file, a file that is not
\* JSON, a check record without a name
C21_NamedCasesAbort ==
    (cpc = "exited"
     /\ \E f \in {scorecards.current, scorecards.baseline} :
           \/ f.kind \in {"missing", "invalid"}
           \/ \E i \in 1..Len(f.checks) : "name" \notin DOMAIN f.checks[i])
        => /\ result.exit_code = 1
           /\ result.stderr # ""
           /\ NothingReported

----------------------------------------------------------------------------
(* link_validation_script.py: LinkValidator                                 *)

\* bound: the number of links in the scanned file
MaxLinks == 2

\* The documentation tree: the scanned file is docs/README.md; beside it are
\* guide.md, image.png, the directory api (with a README.md) and the
\* directory empty (without an index); outside.md lies above the project root.
CurrentFile == "docs/README.md"

\* the part of a link before '#'
LinkPaths == {"", "guide.md", "/docs/guide.md", "missing.md", "api/", "empty/",
              "image.png", "../../outside.md"}

\* the part of a link after '#'
LinkAnchors == {"", "setup", "quick-start", "Quick%20Start", "nowhere"}

ExternalLink == [path |-> "https://example.com", hash |-> FALSE, anchor |-> ""]

\* a link [text](path) or [text](path#anchor); a link is never empty
LinkSet ==
    {l \in [path : LinkPaths, hash : BOOLEAN, anchor : LinkAnchors] :
        /\ ~l.hash => l.anchor = ""
        /\ l.path = "" => l.hash}
    \cup {ExternalLink}

\* link.startswith(('http://', 'https://', 'mailto:'))
IsExternal(link) == link.path = "https://example.com"

\* extract_markdown_links: the links of the file with their line numbers,
\* external links skipped
RECURSIVE extract_markdown_links(_, _)
extract_markdown_links(lines, line_num) ==
    IF line_num > Len(lines) THEN << >>
    ELSE (IF IsExternal(lines[line_num]) THEN << >>
          ELSE << [link |-> lines[line_num], line_num |-> line_num] >>)
         \o extract_markdown_links(lines, line_num + 1)

\* resolve_relative_path from docs/README.md: the anchor is dropped, a
\* leading '/' starts at the project root, '..' is resolved
resolve_relative_path(link_path) ==
    CASE link_path = "guide.md"         -> "docs/guide.md"
      [] link_path = "/docs/guide.md"   -> "docs/guide.md"
      [] link_path = "missing.md"       -> "docs/missing.md"
      [] link_path = "api/"             -> "docs/api"
      [] link_path = "empty/"           -> "docs/empty"
      [] link_path = "image.png"        -> "docs/image.png"
      [] link_path = "../../outside.md" -> "../outside.md"
      [] OTHER                          -> "docs"

\* Path.exists() in the tree
PathExists(target) ==
    target \in {"docs", "docs/README.md", "docs/guide.md", "docs/api", "docs/api/README.md",
                "docs/empty", "docs/image.png", "../outside.md"}

\* the header lines of the markdown files
Headers(target) ==
    CASE target = "docs/README.md" -> {"Setup"}
      [] target = "docs/guide.md"  -> {"Setup", "Quick Start"}
      [] target = "../outside.md"  -> {"Setup"}
      [] OTHER                     -> {}

\* urllib.parse.unquote
unquote(anchor) == IF anchor = "Quick%20Start" THEN "Quick Start" ELSE anchor

\* str.lower
LowerText(text) ==
    CASE text = "Setup"       -> "setup"
      [] text = "Quick Start" -> "quick start"
      [] OTHER                -> text

\* anchor.replace("-", " ")
Spaced(anchor) == IF anchor = "quick-start" THEN "quick start" ELSE anchor

\* anchor.lower().replace(' ', '-') without the characters that are not \w or '-'
NormalizedAnchor(anchor) ==
    IF anchor = "Quick Start" THEN "quick-start" ELSE LowerText(anchor)

\* re.search(rf'^#+\s+.*{needle}.*$', content, re.IGNORECASE): of the needles
\* of LinkAnchors only the whole text of a header occurs in a header
HeaderMatches(header, needle) == LowerText(header) = LowerText(needle)

\* validate_anchor: the target must be a markdown file with a matching header
validate_anchor(target, anchor) ==
    /\ PathExists(target)
    /\ target \in {"docs/README.md", "docs/guide.md", "../outside.md"}
    /\ \E header \in Headers(target) :
          \/ HeaderMatches(header, anchor)
          \/ HeaderMatches(header, Spaced(anchor))
          \/ HeaderMatches(header, NormalizedAnchor(anchor))

\* link.endswith('/')
EndsWithSlash(link) == ~link.hash /\ link.path \in {"api/", "empty/"}

\* Path.relative_to(project_root) raises ValueError above the project root
InProject(target) == target # "../outside.md"

Valid(link, line_num) ==
    [list |-> "valid_links", raised |-> FALSE, ret |-> TRUE,
     entry |-> [file |-> CurrentFile, line |-> line_num, link |-> link,
                issue |-> "", target |-> ""]]

Broken(link, line_num, issue, target) ==
    [list |-> "broken_links", raised |-> FALSE, ret |-> FALSE,
     entry |-> [file |-> CurrentFile, line |-> line_num, link |-> link,
                issue |-> issue, target |-> target]]

AnchorIssue(link, line_num, target) ==
    [list |-> "anchor_issues", raised |-> FALSE, ret |-> FALSE,
     entry |-> [file |-> CurrentFile, line |-> line_num, link |-> link,
                issue |-> unquote(link.anchor), target |-> target]]

Raised(link, line_num) ==
    [list |-> "none", raised |-> TRUE, ret |-> FALSE,
     entry |-> [file |-> CurrentFile, line |-> line_num, link |-> link,
                issue |-> "", target |-> ""]]

\* validate_link: the list it appends to, the entry, and what it returns
validate_link(link, line_num) ==
    IF EndsWithSlash(link)
    THEN LET dir_path == resolve_relative_path(link.path) IN
         IF PathExists(dir_path \o "/README.md") \/ PathExists(dir_path \o "/index.md")
         THEN Valid(link, line_num)
         ELSE Broken(link, line_num, "Directory index not found", dir_path)
    ELSE LET target_path == IF link.path = "" THEN CurrentFile
                            ELSE resolve_relative_path(link.path)
             anchor == unquote(link.anchor)
         IN  IF ~PathExists(target_path)
             THEN Broken(link, line_num, "File not found", target_path)
             ELSE IF anchor # "" /\ ~validate_anchor(target_path, anchor)
             THEN IF InProject(target_path)
                  THEN AnchorIssue(link, line_num, target_path)
                  ELSE Raised(link, line_num)
             ELSE Valid(link, line_num)

\* the files of at most n links
LinkFiles(n) == UNION {[1..k -> LinkSet] : k \in 0..n}

\* LinkValidator(docs_root), scan_directory has read the file
InitLinks ==
    /\ CheckerIdle
    /\ CompareIdle
    /\ content \in LinkFiles(MaxLinks)
    /\ valid_links = <<>>
    /\ broken_links = <<>>
    /\ anchor_issues = <<>>
    /\ returned = <<>>
    /\ lpc = "scanning"
    /\ summary_lines = NoSummary

\* one iteration of the inner loop of scan_directory: a call of validate_link
ValidateLink ==
    /\ lpc = "scanning"
    /\ Len(returned) < Len(extract_markdown_links(content, 1))
    /\ LET next == extract_markdown_links(content, 1)[Len(returned) + 1]
           done == validate_link(next.link, next.line_num)
       IN  /\ valid_links' = IF done.list = "valid_links"
                             THEN Append(valid_links, done.entry) ELSE valid_links
           /\ broken_links' = IF done.list = "broken_links"
                              THEN Append(broken_links, done.entry) ELSE broken_links
           /\ anchor_issues' = IF done.list = "anchor_issues"
                               THEN Append(anchor_issues, done.entry) ELSE anchor_issues
           /\ returned' = Append(returned, IF done.raised THEN "raised"
                                           ELSE IF done.ret THEN "True" ELSE "False")
           /\ lpc' = IF done.raised THEN "raised" ELSE "scanning"
    /\ UNCHANGED <<content, summary_lines>>
    /\ UNCHANGED checker_vars
    /\ UNCHANGED compare_vars

\* scan_directory returns
ScanEnd ==
    /\ lpc = "scanning"
    /\ Len(returned) = Len(extract_markdown_links(content, 1))
    /\ lpc' = "scanned"
    /\ UNCHANGED <<content, valid_links, broken_links, anchor_issues, returned, summary_lines>>
    /\ UNCHANGED checker_vars
    /\ UNCHANGED compare_vars

\* generate_report: the four figures of its Summary
GenerateReport ==
    /\ lpc = "scanned"
    /\ summary_lines' = [total |-> Len(valid_links) + Len(broken_links),
                         valid |-> Len(valid_links),
                         broken |-> Len(broken_links),
                         anchor |-> Len(anchor_issues)]
    /\ lpc' = "reported"
    /\ UNCHANGED <<content, valid_links, broken_links, anchor_issues, returned>>
    /\ UNCHANGED checker_vars
    /\ UNCHANGED compare_vars

NextLinks ==
    \/ ValidateLink
    \/ ScanEnd
    \/ GenerateReport

SpecLinks == InitLinks /\ [][NextLinks]_vars

TypeOKLinks ==
    /\ lpc \in {"scanning", "scanned", "raised", "reported"}
    /\ Len(returned) <= Len(content)
    /\ Len(content) <= MaxLinks

----------------------------------------------------------------------------
(* Every validated link is counted                                          *)

Returned(outcome) == {i \in 1..Len(returned) : returned[i] = outcome}

\* every call of validate_link so far returned, after appending one entry to
\* one of the three lists, and returned True exactly for the valid links
OneEntryPerCall ==
    /\ Returned("raised") = {}
    /\ Len(valid_links) + Len(broken_links) + Len(anchor_issues) = Len(returned)
    /\ Cardinality(Returned("True")) = Len(valid_links)

\* the Total Links Checked of the report is the number of validated links
TotalIsLinksValidated ==
    lpc = "reported" => summary_lines.total = Len(returned)

\* C25: every call of validate_link appends exactly one entry to exactly one
\* of valid_links, broken_links and anchor_issues and returns True iff the
\* entry went to valid_links; after scan_directory the Total Links Checked
\* of generate_report equals the number of links that were validated.
C25_EveryLinkCounted == OneEntryPerCall /\ TotalIsLinksValidated

\* two links were validated, one has a missing anchor: the report says
\* Total Links Checked: 1
C25_AnchorIssueUncounted ==
    /\ lpc = "reported"
    /\ Len(returned) = 2
    /\ Len(valid_links) = 1
    /\ Len(anchor_issues) = 1
    /\ summary_lines.total = 1

============================================================================
